---------------------------- MODULE Spec2Model ----------------------------
(***************************************************************************)
(* A model of aider's GeniusAgent (src/aider/genius_mode.py): the planner, *)
(* the dependency resolver, the executor, the validator, the feedback      *)
(* controller and the run loop that composes them.                         *)
(*                                                                         *)
(* Tasks are Python dicts.  A dict is modelled as a record; a key that the *)
(* code may leave out is modelled by the value a read of it defaults to    *)
(* (dependencies: the empty list, retry_count: 0).  The lists              *)
(* completed_tasks and failed_tasks hold references to the dicts of        *)
(* task_graph: they are modelled as sequences of positions in task_graph,  *)
(* and Python's `task in list` (equality of dicts, by value) is modelled   *)
(* by comparing the records at those positions.                            *)
(***************************************************************************)
EXTENDS Naturals, Sequences, FiniteSets

(***************************************************************************)
(* Bounds of the model.                                                    *)
(***************************************************************************)
\* longest task list the planning delegate answers with in a run
MaxTasks == 2
\* longest task list handed to the dependency resolver on its own
MaxResolveTasks == 3
\* largest max_iterations a run is constructed with
MaxIter == 3
\* most tracked files a validation pass checked on its own finds
MaxFiles == 2
\* most known issues handed to the rule-based planner on its own
MaxIssues == 2

(***************************************************************************)
(* Input alphabets.                                                        *)
(***************************************************************************)
DefaultTask == "Analyze and improve the codebase"
StatedGoal == "add error handling"

TaskNames == {"A", "B", "C"}
\* a dependency may name a task of the list or a name no task has
DepNames == TaskNames \cup {"ghost"}
Priorities == {1, 2}
DepLists == {<<>>} \cup {<<d>> : d \in DepNames}

VARIABLES
    \* ---- GeniusAgent fields
    task,                    \* self.task, the goal
    task_explicitly_provided,
    max_iterations,
    current_iteration,
    task_graph,
    completed_tasks,         \* positions in task_graph, in append order
    failed_tasks,            \* positions in task_graph, in append order
    validation_results,      \* <<>> for the empty dict, else <<the dict>>
    last_error_context,
    \* ---- run()'s locals and position
    pc,
    iteration,               \* number of loop iterations started
    current_task,            \* position in task_graph, 0 when none
    edit_success,
    validation_success,
    run_result,              \* what run() returned, "none" before it returns
    report,                  \* <<>> before generate_report, else <<the report>>
    \* ---- coder configuration
    config,
    \* ---- observation of collaborator calls
    exec_calls,              \* calls of editing_code_generation_phase
    validator_calls,         \* calls of code_execution_validation_phase
    commit_calls,            \* calls of cmd_commit
    edit_raised,             \* coder.run raised in the last executor call
    val_failures,            \* per position: validation failures handled
    last_event,              \* what the last step of run() did
    \* ---- _resolve_task_dependencies, stepped pass by pass
    tasks,                   \* its argument
    resolved,
    remaining,
    passes,                  \* outer-loop passes performed
    forced_pass,             \* the last pass found no ready task
    rpc,
    \* ---- what the environment supplied
    is_dirty,                \* result of the last repo.is_dirty() call
    plan_input,              \* <<>>, or <<what the planner was given>>
    val_input,               \* <<>>, or <<what the validation pass found>>
    exec_input               \* <<>>, or <<what one executor call was given and did>>

agentVars == <<task, task_explicitly_provided, max_iterations, current_iteration,
               task_graph, completed_tasks, failed_tasks, validation_results,
               last_error_context>>
runVars == <<pc, iteration, current_task, edit_success, validation_success,
             run_result, report, config>>
obsVars_but_event == <<exec_calls, validator_calls, commit_calls, edit_raised,
                       val_failures>>
obsVars == <<obsVars_but_event, last_event>>
resolverVars == <<tasks, resolved, remaining, passes, forced_pass, rpc>>
envVars == <<is_dirty, plan_input, val_input, exec_input>>
vars == <<agentVars, runVars, obsVars, resolverVars, envVars>>

(***************************************************************************)
(* Sequence helpers: the list operations the code uses.                    *)
(***************************************************************************)
Range(s) == {s[i] : i \in 1..Len(s)}

\* list.remove(x): drops the first element equal to x
RECURSIVE RemoveFirst(_, _)
RemoveFirst(s, x) ==
    IF s = <<>> THEN <<>>
    ELSE IF Head(s) = x THEN Tail(s)
    ELSE <<Head(s)>> \o RemoveFirst(Tail(s), x)

\* a step of an unstable sort: x goes before the elements of its own priority
RECURSIVE InsertByPriority_BeforeEquals(_, _)
InsertByPriority_BeforeEquals(sorted, x) ==
    IF sorted = <<>> THEN <<x>>
    ELSE IF Head(sorted).priority < x.priority
         THEN <<Head(sorted)>> \o InsertByPriority_BeforeEquals(Tail(sorted), x)
         ELSE <<x>> \o sorted

\* a minimum that takes the last element of least priority
MinByPriority_Last(s) ==
    LET i == CHOOSE k \in 1..Len(s) :
                 /\ \A j \in 1..Len(s) : s[k].priority <= s[j].priority
                 /\ \A j \in (k + 1)..Len(s) : s[j].priority > s[k].priority
    IN s[i]

\* one step of a stable sort on "priority": x goes behind every element whose
\* priority is not larger
RECURSIVE InsertByPriority(_, _)
InsertByPriority(sorted, x) ==
    IF sorted = <<>> THEN <<x>>
    ELSE IF Head(sorted).priority <= x.priority
         THEN <<Head(sorted)>> \o InsertByPriority(Tail(sorted), x)
         ELSE <<x>> \o sorted

\* list.sort(key=lambda x: x["priority"]): stable, ascending
RECURSIVE SortByPriority(_)
SortByPriority(s) ==
    IF s = <<>> THEN <<>>
    ELSE InsertByPriority(SortByPriority(SubSeq(s, 1, Len(s) - 1)), s[Len(s)])

\* min(s, key=lambda x: x["priority"]): the first element of least priority
MinByPriority(s) ==
    LET i == CHOOSE k \in 1..Len(s) :
                 /\ \A j \in 1..Len(s) : s[k].priority <= s[j].priority
                 /\ \A j \in 1..(k - 1) : s[j].priority > s[k].priority
    IN s[i]

(***************************************************************************)
(* _resolve_task_dependencies                                              *)
(***************************************************************************)
ResolvedNames(res) == {res[i].name : i \in 1..Len(res)}

\* deps_resolved: every dependency name is the name of a resolved task
DepsResolved(t, res) ==
    \A k \in 1..Len(t.dependencies) : t.dependencies[k] \in ResolvedNames(res)

\* a resolver that takes every remaining task as ready
ReadyTasks_All(res, rem) == rem

ReadyTasks(res, rem) == SelectSeq(rem, LAMBDA t : DepsResolved(t, res))

\* a resolver that forces no task when none is ready
PassTasks_NoForce(res, rem) ==
    SortByPriority(SelectSeq(rem, LAMBDA t : DepsResolved(t, res)))

\* the tasks one pass of the while loop appends, in the order it appends them
PassTasks(res, rem) ==
    LET ready == ReadyTasks(res, rem)
    IN SortByPriority(IF ready = <<>> THEN <<MinByPriority(rem)>> ELSE ready)

\* remaining.remove(task) for each appended task
RECURSIVE RemoveAll(_, _)
RemoveAll(rem, ts) ==
    IF ts = <<>> THEN rem ELSE RemoveAll(RemoveFirst(rem, Head(ts)), Tail(ts))

RECURSIVE ResolveFrom(_, _)
ResolveFrom(res, rem) ==
    IF rem = <<>> THEN res
    ELSE LET ts == PassTasks(res, rem)
         IN ResolveFrom(res \o ts, RemoveAll(rem, ts))

ResolveTaskDependencies(ts) == ResolveFrom(<<>>, ts)


(***************************************************************************)
(* Task dicts.                                                             *)
(***************************************************************************)
Task(n, ty, p, d) ==
    [name |-> n, type |-> ty, priority |-> p, dependencies |-> d, retry_count |-> 0]

SeqsUpTo(S, n) == UNION {[1..k -> S] : k \in 0..n}

\* task lists handed to the resolver on its own
ResolveTaskData == {Task(n, "improvement", p, d) :
                        n \in TaskNames, p \in Priorities, d \in DepLists}

(***************************************************************************)
(* The resolver stepped pass by pass: one action per pass of `while        *)
(* remaining`.                                                             *)
(***************************************************************************)
\* self.last_error_context: None, the text of an edit exception, or the
\* " | "-joined segments of a failed validation
NoContext == [kind |-> "None", segments |-> <<>>]

AllConfigs == [auto_lint : BOOLEAN, auto_test : BOOLEAN, test_cmd : BOOLEAN,
               enable_security_scan : BOOLEAN, auto_commits : BOOLEAN]
\* the configurations a run is started with: lint and test switched together,
\* auto_test only with a test command
Configs == {c \in AllConfigs : c.auto_lint = c.auto_test /\ (c.auto_test => c.test_cmd)}
IdleConfig == [auto_lint |-> FALSE, auto_test |-> FALSE, test_cmd |-> FALSE,
               enable_security_scan |-> FALSE, auto_commits |-> FALSE]

InitAgentIdle ==
    /\ task = DefaultTask
    /\ task_explicitly_provided = FALSE
    /\ max_iterations = 0
    /\ current_iteration = 0
    /\ task_graph = <<>>
    /\ completed_tasks = <<>>
    /\ failed_tasks = <<>>
    /\ validation_results = <<>>
    /\ last_error_context = NoContext
    /\ pc = "idle"
    /\ iteration = 0
    /\ current_task = 0
    /\ edit_success = FALSE
    /\ validation_success = FALSE
    /\ run_result = "none"
    /\ report = <<>>
    /\ config = IdleConfig
    /\ exec_calls = 0
    /\ validator_calls = 0
    /\ commit_calls = 0
    /\ edit_raised = FALSE
    /\ val_failures = <<>>
    /\ last_event = "none"
    /\ is_dirty = FALSE
    /\ plan_input = <<>>
    /\ val_input = <<>>
    /\ exec_input = <<>>

InitResolve ==
    /\ InitAgentIdle
    /\ tasks \in SeqsUpTo(ResolveTaskData, MaxResolveTasks)
    /\ resolved = <<>>
    /\ remaining = tasks
    /\ passes = 0
    /\ forced_pass = FALSE
    /\ rpc = "loop"

ResolvePass ==
    /\ rpc = "loop"
    /\ remaining # <<>>
    /\ LET ts == PassTasks(resolved, remaining)
       IN /\ resolved' = resolved \o ts
          /\ remaining' = RemoveAll(remaining, ts)
    /\ forced_pass' = (ReadyTasks(resolved, remaining) = <<>>)
    /\ passes' = passes + 1
    /\ UNCHANGED <<tasks, rpc, agentVars, runVars, obsVars, envVars>>

ResolveReturn ==
    /\ rpc = "loop"
    /\ remaining = <<>>
    /\ rpc' = "done"
    /\ UNCHANGED <<tasks, resolved, remaining, passes, forced_pass,
                   agentVars, runVars, obsVars, envVars>>

NextResolve == ResolvePass \/ ResolveReturn

SpecResolve == InitResolve /\ [][NextResolve]_vars

(***************************************************************************)
(* Planner.                                                                *)
(***************************************************************************)
\* what _analyze_current_issues can return: a "medium" lint issue per file
\* with lint findings, then at most one "high" test issue
LintIssue == [type |-> "lint", priority |-> "medium"]
TestIssue == [type |-> "test", priority |-> "high"]

AnalyzeCurrentIssues(cfg, lint_found, test_failed) ==
    (IF cfg.auto_lint /\ lint_found THEN <<LintIssue>> ELSE <<>>)
    \o (IF cfg.test_cmd /\ test_failed THEN <<TestIssue>> ELSE <<>>)

\* a rule-based planner that leaves its tasks in the order it made them
CreateTaskGraph_Unsorted(goal, files_in_chat, issues) ==
    LET main == IF goal # DefaultTask
                THEN <<Task(goal, "feature_implementation", 1, <<>>)>>
                ELSE <<>>
        critical == SelectSeq(issues,
                        LAMBDA i : i.type = "test" /\ i.priority = "high")
        fixes == [k \in 1..Len(critical) |->
                     Task("Fix critical failing tests", "fix_tests", 2, <<>>)]
        quality == IF goal = DefaultTask /\ files_in_chat
                   THEN <<Task("Improve code quality and documentation",
                               "improvement", 1, <<>>)>>
                   ELSE <<>>
    IN main \o fixes \o quality

\* _create_task_graph: the rule-based planner
CreateTaskGraph(goal, files_in_chat, issues) ==
    LET main == IF goal # DefaultTask
                THEN <<Task(goal, "feature_implementation", 1, <<>>)>>
                ELSE <<>>
        critical == SelectSeq(issues,
                        LAMBDA i : i.type = "test" /\ i.priority = "high")
        fixes == [k \in 1..Len(critical) |->
                     Task("Fix critical failing tests", "fix_tests", 2, <<>>)]
        quality == IF goal = DefaultTask /\ files_in_chat
                   THEN <<Task("Improve code quality and documentation",
                               "improvement", 1, <<>>)>>
                   ELSE <<>>
    IN SortByPriority(main \o fixes \o quality)

\* the single task _parse_llm_planning_response falls back to
ParseFallbackTask(goal) ==
    Task(IF goal # DefaultTask THEN goal ELSE "Improve codebase",
         IF goal # DefaultTask THEN "feature_implementation" ELSE "improvement",
         1, <<>>)

\* task objects of the planning delegate's JSON array, after the defaults of
\* lines 488-495 are filled in
LLMTaskData == {Task(n, ty, p, d) :
                    n \in {"A", "B"}, ty \in {"feature_implementation"},
                    p \in Priorities, d \in {<<>>, <<"A">>}}

\* what simple_send_with_retries does: it raises, answers nothing, answers
\* text without a JSON array (or with one json.loads rejects), or answers a
\* JSON array of task objects
LLMResponses ==
    {[kind |-> k, data |-> <<>>] : k \in {"raise", "empty", "unparsable"}}
    \cup {[kind |-> "array", data |-> d] : d \in SeqsUpTo(LLMTaskData, MaxTasks)}

\* a parser with no task to fall back to
ParseLLMPlanningResponse_NoFallbackTask(goal, response) ==
    IF response.kind = "array"
    THEN ResolveTaskDependencies(response.data)
    ELSE <<>>

ParseLLMPlanningResponse(goal, response) ==
    IF response.kind = "array"
    THEN ResolveTaskDependencies(response.data)
    ELSE <<ParseFallbackTask(goal)>>

\* a planner that plans nothing when the delegate is silent
LLMBasedTaskPlanning_EmptyOnSilence(goal, files_in_chat, issues, response) ==
    IF response.kind = "raise"
    THEN CreateTaskGraph(goal, files_in_chat, issues)
    ELSE IF response.kind = "empty" THEN <<>>
    ELSE ParseLLMPlanningResponse(goal, response)

LLMBasedTaskPlanning(goal, files_in_chat, issues, response) ==
    IF response.kind \in {"raise", "empty"}
    THEN CreateTaskGraph(goal, files_in_chat, issues)
    ELSE ParseLLMPlanningResponse(goal, response)

(***************************************************************************)
(* Validator.                                                              *)
(***************************************************************************)
\* the constructs the scan looks for, in the order it tests them
Constructs == <<"eval(", "exec(", "shell=True", "pickle.loads">>

\* the tracked files a validation pass may find (coder.abs_fnames and what
\* is on disk): none, a clean Python file, a Python file that unpickles
CleanFile == [name |-> "a.py", py |-> TRUE, exists |-> TRUE, readable |-> TRUE,
              content |-> {}]
RiskyFile == [name |-> "b.py", py |-> TRUE, exists |-> TRUE, readable |-> TRUE,
              content |-> {"pickle.loads"}]
FileLists == {<<>>, <<CleanFile>>, <<RiskyFile>>}

\* the issues _run_security_scan appends for one file: none for a file that
\* is not Python, is missing or cannot be read
FileIssues(f) ==
    IF f.py /\ f.exists /\ f.readable
    THEN LET found == SelectSeq(Constructs, LAMBDA c : c \in f.content)
         IN [k \in 1..Len(found) |-> <<f.name, found[k]>>]
    ELSE <<>>

\* a scan that stops at the first file it flags
RECURSIVE SecurityIssues_StopAtFirst(_)
SecurityIssues_StopAtFirst(fnames) ==
    IF fnames = <<>> THEN <<>>
    ELSE IF FileIssues(Head(fnames)) # <<>> THEN FileIssues(Head(fnames))
    ELSE SecurityIssues_StopAtFirst(Tail(fnames))

RECURSIVE SecurityIssues(_)
SecurityIssues(fnames) ==
    IF fnames = <<>> THEN <<>>
    ELSE FileIssues(Head(fnames)) \o SecurityIssues(Tail(fnames))

\* a diagnostic payload: Python's None, or a text; a security text carries
\* the file/construct pairs it lists
NoOutput == [text |-> "None", issues |-> <<>>]
Output(text) == [text |-> text, issues |-> <<>>]

\* a scan that fails when a file cannot be read
RunSecurityScan_FailOnError(fnames) ==
    LET security_issues == SecurityIssues(fnames)
        errors == \E k \in 1..Len(fnames) :
                      fnames[k].py /\ fnames[k].exists /\ ~fnames[k].readable
    IN [passed |-> Len(security_issues) = 0 /\ ~errors,
        output |-> IF security_issues # <<>> \/ errors
                   THEN [text |-> "security issues", issues |-> security_issues]
                   ELSE Output("No security issues detected")]

RunSecurityScan(fnames) ==
    LET security_issues == SecurityIssues(fnames)
    IN [passed |-> Len(security_issues) = 0,
        output |-> IF security_issues # <<>>
                   THEN [text |-> "security issues", issues |-> security_issues]
                   ELSE Output("No security issues detected")]

LintOutcomes == {"ok", "issues", "raise"}
TestOutcomes == {"ok", "output", "raise"}

\* a verdict that leaves the lint check out
OverallSuccess_NoLint(vr) == vr.tests_passed /\ vr.security_passed

\* overall_success of code_execution_validation_phase
OverallSuccess(vr) == vr.lint_passed /\ vr.tests_passed /\ vr.security_passed

\* a pass that lints the tracked files whether or not auto_lint is on
ValidationResults_LintUnconfigured(cfg, security_scan, fnames, lint, test) ==
    LET run_lint == fnames # <<>>
        run_test == cfg.auto_test /\ cfg.test_cmd
        sec == RunSecurityScan(fnames)
    IN [lint_passed |-> ~run_lint \/ lint = "ok",
        lint_output |-> IF run_lint /\ lint = "issues" THEN Output("Linting issues detected")
                        ELSE IF run_lint /\ lint = "raise" THEN Output("lint exception")
                        ELSE NoOutput,
        tests_passed |-> ~run_test \/ test = "ok",
        test_output |-> IF run_test /\ test = "output" THEN Output("test output")
                        ELSE IF run_test /\ test = "raise" THEN Output("test exception")
                        ELSE NoOutput,
        security_passed |-> ~security_scan \/ sec.passed,
        security_output |-> IF security_scan THEN sec.output ELSE NoOutput]

\* a pass that stops at the first failing check
ChecksRun_StopAtFailure(cfg, security_scan, fnames, lint, test) ==
    LET run_lint == cfg.auto_lint /\ fnames # <<>>
        run_test == cfg.auto_test /\ cfg.test_cmd /\ (run_lint => lint = "ok")
    IN [lint |-> IF run_lint THEN 1 ELSE 0,
        test |-> IF run_test THEN 1 ELSE 0,
        security |-> IF security_scan /\ (run_lint => lint = "ok")
                        /\ (run_test => test = "ok") THEN 1 ELSE 0]

\* how often a pass calls cmd_lint, cmd_test and _run_security_scan (the
\* guards of lines 796, 811 and 824): the lint and test calls sit in
\* try/except blocks, so no outcome of a check keeps a later one from running
ChecksRun(cfg, security_scan, fnames, lint, test) ==
    [lint |-> IF cfg.auto_lint /\ fnames # <<>> THEN 1 ELSE 0,
     test |-> IF cfg.auto_test /\ cfg.test_cmd THEN 1 ELSE 0,
     security |-> IF security_scan THEN 1 ELSE 0]

\* the validation_results dict of one pass
ValidationResults(cfg, security_scan, fnames, lint, test) ==
    LET checks == ChecksRun(cfg, security_scan, fnames, lint, test)
        run_lint == checks.lint = 1
        run_test == checks.test = 1
        sec == RunSecurityScan(fnames)
    IN [lint_passed |-> ~run_lint \/ lint = "ok",
        lint_output |-> IF run_lint /\ lint = "issues" THEN Output("Linting issues detected")
                        ELSE IF run_lint /\ lint = "raise" THEN Output("lint exception")
                        ELSE NoOutput,
        tests_passed |-> ~run_test \/ test = "ok",
        test_output |-> IF run_test /\ test = "output" THEN Output("test output")
                        ELSE IF run_test /\ test = "raise" THEN Output("test exception")
                        ELSE NoOutput,
        security_passed |-> checks.security = 0 \/ sec.passed,
        security_output |-> IF checks.security = 1 THEN sec.output ELSE NoOutput]

(***************************************************************************)
(* Feedback controller and task selection.                                 *)
(***************************************************************************)
\* `task in lst`: some dict of lst equals the dict at position i
TaskIn(tg, i, lst) == \E k \in 1..Len(lst) : tg[lst[k]] = tg[i]

\* a selection that looks at completed_tasks only
GetNextTask_IgnoreFailed(tg, completed, failed) ==
    LET open == {i \in 1..Len(tg) : ~TaskIn(tg, i, completed)}
    IN IF open = {} THEN 0 ELSE CHOOSE i \in open : \A j \in open : i <= j

\* a selection that takes the last task that is in neither list
GetNextTask_Last(tg, completed, failed) ==
    LET open == {i \in 1..Len(tg) :
                    ~TaskIn(tg, i, completed) /\ ~TaskIn(tg, i, failed)}
    IN IF open = {} THEN 0 ELSE CHOOSE i \in open : \A j \in open : i >= j

\* _get_next_task: the first task of the graph that is in neither list;
\* 0 stands for None
GetNextTask(tg, completed, failed) ==
    LET open == {i \in 1..Len(tg) :
                    ~TaskIn(tg, i, completed) /\ ~TaskIn(tg, i, failed)}
    IN IF open = {} THEN 0 ELSE CHOOSE i \in open : \A j \in open : i <= j

\* a payload is truthy unless it is None
Truthy(output) == output.text # "None"

\* error messages with a segment for every payload, None or not
ErrorMessages_AllOutputs(vd) ==
    <<[label |-> "Lint errors", payload |-> vd.lint_output],
      [label |-> "Test failures", payload |-> vd.test_output],
      [label |-> "Security issues", payload |-> vd.security_output]>>

\* error_messages of _handle_validation_failure
ErrorMessages(vd) ==
    (IF Truthy(vd.lint_output)
     THEN <<[label |-> "Lint errors", payload |-> vd.lint_output]>> ELSE <<>>)
    \o (IF Truthy(vd.test_output)
        THEN <<[label |-> "Test failures", payload |-> vd.test_output]>> ELSE <<>>)
    \o (IF Truthy(vd.security_output)
        THEN <<[label |-> "Security issues", payload |-> vd.security_output]>>
        ELSE <<>>)

\* the number of retries a task is allowed (line 1018)
RetryLimit == 2

\* getattr(task, 'retry_count', 0): task is a dict, and a dict's keys are not
\* its attributes, so the read yields the default whatever task['retry_count']
\* holds
GetattrRetryCount(t) == 0

\* the handler counting retries in the dict with no limit on them
HandleValidationFailure_Uncapped(tg, failed, i, vd) ==
    [task_graph |-> [tg EXCEPT ![i].retry_count = @ + 1],
     failed_tasks |-> failed,
     last_error_context |-> [kind |-> "validation", segments |-> ErrorMessages(vd)],
     decision |-> "retry"]

\* a handler that moves the retried task behind the other tasks
HandleValidationFailure_Requeue(tg, failed, i, vd) ==
    [task_graph |-> SubSeq(tg, 1, i - 1) \o SubSeq(tg, i + 1, Len(tg))
                    \o <<[tg[i] EXCEPT !.retry_count = 1]>>,
     failed_tasks |-> failed,
     last_error_context |-> [kind |-> "validation", segments |-> ErrorMessages(vd)],
     decision |-> "retry"]

\* _handle_validation_failure: the new task graph, failed list and error
\* context, and whether the task is retried
HandleValidationFailure(tg, failed, i, vd) ==
    LET retry_count == GetattrRetryCount(tg[i])
        ctx == [kind |-> "validation", segments |-> ErrorMessages(vd)]
    IN IF retry_count < RetryLimit
       THEN [task_graph |-> [tg EXCEPT ![i].retry_count = retry_count + 1],
             failed_tasks |-> failed,
             last_error_context |-> ctx,
             decision |-> "retry"]
       ELSE [task_graph |-> tg,
             failed_tasks |-> Append(failed, i),
             last_error_context |-> ctx,
             decision |-> "abandon"]

\* generate_report: what the report shows
GenerateReport ==
    [iterations |-> current_iteration,
     max_iterations |-> max_iterations,
     completed |-> [k \in 1..Len(completed_tasks) |-> task_graph[completed_tasks[k]].name],
     failed |-> [k \in 1..Len(failed_tasks) |-> task_graph[failed_tasks[k]].name],
     validation |-> validation_results]

\* a result that asks for every verdict of the last pass
RunSuccess_AllVerdicts ==
    /\ Len(completed_tasks) > 0
    /\ \/ validation_results = <<>>
       \/ /\ validation_results[1].lint_passed
          /\ validation_results[1].tests_passed
          /\ validation_results[1].security_passed

\* the value run() returns (lines 983-986)
RunSuccess ==
    /\ Len(completed_tasks) > 0
    /\ \/ validation_results = <<>>
       \/ /\ validation_results[1].tests_passed
          /\ validation_results[1].security_passed

(***************************************************************************)
(* run(): one action per step of the loop.                                 *)
(***************************************************************************)
Init ==
    /\ \E goal \in {<<DefaultTask, FALSE>>, <<DefaultTask, TRUE>>, <<StatedGoal, TRUE>>} :
          /\ task = goal[1]
          /\ task_explicitly_provided = goal[2]
    /\ max_iterations \in 1..MaxIter
    /\ config \in Configs
    /\ current_iteration = 0
    /\ task_graph = <<>>
    /\ completed_tasks = <<>>
    /\ failed_tasks = <<>>
    /\ validation_results = <<>>
    /\ last_error_context = NoContext
    /\ pc = "planning"
    /\ iteration = 0
    /\ current_task = 0
    /\ edit_success = FALSE
    /\ validation_success = FALSE
    /\ run_result = "none"
    /\ report = <<>>
    /\ exec_calls = 0
    /\ validator_calls = 0
    /\ commit_calls = 0
    /\ edit_raised = FALSE
    /\ val_failures = <<>>
    /\ last_event = "none"
    /\ tasks = <<>>
    /\ resolved = <<>>
    /\ remaining = <<>>
    /\ passes = 0
    /\ forced_pass = FALSE
    /\ rpc = "idle"
    /\ is_dirty = FALSE
    /\ plan_input = <<>>
    /\ val_input = <<>>
    /\ exec_input = <<>>

\* a planning phase that reports success whatever it planned
PlanningOk_Always(graph) == TRUE

\* what planning_phase returns once a goal is there (line 125)
PlanningOk(graph) == Len(graph) > 0

\* lines 933-936 with planning_phase: the goal is asked of the user when none
\* was given, and the task graph is planned
RunPlanning ==
    /\ pc = "planning"
    /\ \E user_task \in {"", DefaultTask, StatedGoal},
          files_in_chat \in BOOLEAN, lint_found \in BOOLEAN, test_failed \in BOOLEAN,
          response \in LLMResponses :
          IF ~task_explicitly_provided /\ user_task = ""
          THEN /\ pc' = "done"
               /\ run_result' = "False"
               /\ last_event' = "planning_failed"
               /\ UNCHANGED <<task, task_explicitly_provided, task_graph, val_failures>>
          ELSE LET goal == IF task_explicitly_provided THEN task ELSE user_task
                   issues == AnalyzeCurrentIssues(config, lint_found, test_failed)
                   graph == LLMBasedTaskPlanning(goal, files_in_chat, issues, response)
               IN /\ task' = goal
                  /\ task_explicitly_provided' = TRUE
                  /\ task_graph' = graph
                  /\ val_failures' = [i \in 1..Len(graph) |-> 0]
                  /\ IF PlanningOk(graph)
                     THEN /\ pc' = "iterate"
                          /\ run_result' = run_result
                          /\ last_event' = "planned"
                     ELSE /\ pc' = "done"
                          /\ run_result' = "False"
                          /\ last_event' = "planning_failed"
    /\ UNCHANGED <<max_iterations, current_iteration, completed_tasks, failed_tasks,
                   validation_results, last_error_context, iteration, current_task,
                   edit_success, validation_success, report, config,
                   exec_calls, validator_calls, commit_calls, edit_raised,
                   resolverVars, envVars>>

\* a loop that runs one iteration too many
LoopContinues_OffByOne == iteration <= max_iterations

\* the bound of `for iteration in range(self.max_iterations)`
LoopContinues == iteration < max_iterations

\* lines 939-953: an iteration starts and the next task is fetched
RunSelect ==
    /\ pc = "iterate"
    /\ LoopContinues
    /\ iteration' = iteration + 1
    /\ current_iteration' = iteration + 1
    /\ LET next == GetNextTask(task_graph, completed_tasks, failed_tasks)
       IN /\ current_task' = next
          /\ IF next = 0
             THEN pc' = "report" /\ last_event' = "no_task"
             ELSE pc' = "edit" /\ last_event' = "selected"
    /\ UNCHANGED <<task, task_explicitly_provided, max_iterations, task_graph,
                   completed_tasks, failed_tasks, validation_results,
                   last_error_context, edit_success, validation_success, run_result,
                   report, config, obsVars_but_event, resolverVars, envVars>>

\* the for loop runs out of iterations
RunLoopExhausted ==
    /\ pc = "iterate"
    /\ ~LoopContinues
    /\ pc' = "report"
    /\ last_event' = "budget_exhausted"
    /\ UNCHANGED <<agentVars, iteration, current_task, edit_success,
                   validation_success, run_result, report, config,
                   obsVars_but_event, resolverVars, envVars>>

\* an executor that reports success whether or not the edit raised
EditingCodeGenerationPhase_Swallow(ctx, raises) ==
    [success |-> TRUE, last_error_context |-> ctx]

\* editing_code_generation_phase: the edit collaborator is run; an exception
\* of it is caught, its text stored, and False returned
EditingCodeGenerationPhase(ctx, raises) ==
    IF raises
    THEN [success |-> FALSE, last_error_context |-> [kind |-> "edit", segments |-> <<>>]]
    ELSE [success |-> TRUE, last_error_context |-> ctx]

\* lines 955-959: the executor runs; a task whose edit failed goes to Failed
RunEdit ==
    /\ pc = "edit"
    /\ exec_calls' = exec_calls + 1
    /\ \E raises \in BOOLEAN :
          LET r == EditingCodeGenerationPhase(last_error_context, raises)
          IN /\ edit_raised' = raises
             /\ edit_success' = r.success
             /\ last_error_context' = r.last_error_context
             /\ IF ~r.success
                THEN /\ failed_tasks' = Append(failed_tasks, current_task)
                     /\ pc' = "iterate"
                     /\ last_event' = "edit_failed"
                ELSE /\ failed_tasks' = failed_tasks
                     /\ pc' = "validate"
                     /\ last_event' = "edit_ok"
    /\ UNCHANGED <<task, task_explicitly_provided, max_iterations, current_iteration,
                   task_graph, completed_tasks, validation_results, iteration,
                   current_task, validation_success, run_result, report, config,
                   validator_calls, commit_calls, val_failures, resolverVars, envVars>>

\* line 962: code_execution_validation_phase
RunValidate ==
    /\ pc = "validate"
    /\ validator_calls' = validator_calls + 1
    /\ \E fnames \in FileLists, lint \in LintOutcomes, test \in TestOutcomes :
          LET vr == ValidationResults(config, config.enable_security_scan,
                                      fnames, lint, test)
          IN /\ validation_results' = <<vr>>
             /\ validation_success' = OverallSuccess(vr)
    /\ pc' = "decide"
    /\ last_event' = "validated"
    /\ UNCHANGED <<task, task_explicitly_provided, max_iterations, current_iteration,
                   task_graph, completed_tasks, failed_tasks, last_error_context,
                   iteration, current_task, edit_success, run_result, report, config,
                   exec_calls, commit_calls, edit_raised, val_failures, resolverVars, envVars>>

\* a commit condition that leaves the dirty check out
ShouldCommit_IgnoreDirty(cfg, dirty) == cfg.auto_commits

\* line 969: auto_commits, and a repository that is there and dirty; `dirty`
\* stands for `self.coder.repo and self.coder.repo.is_dirty()`, which is only
\* evaluated when auto_commits is on
ShouldCommit(cfg, dirty) == cfg.auto_commits /\ dirty

\* a success branch that leaves the stored error context as it is
ContextAfterSuccess_Keep(ctx) == ctx

\* line 966: the error context is cleared on success, whatever it held
ContextAfterSuccess(ctx) == NoContext

\* lines 964-976: a validated task is completed (and committed when the
\* repository is dirty); a validation failure goes to the feedback controller
RunDecide ==
    /\ pc = "decide"
    /\ IF validation_success
       THEN /\ completed_tasks' = Append(completed_tasks, current_task)
            /\ last_error_context' = ContextAfterSuccess(last_error_context)
            /\ \E dirty \in BOOLEAN :
                  /\ is_dirty' = (config.auto_commits /\ dirty)
                  /\ commit_calls' = IF ShouldCommit(config, dirty)
                                     THEN commit_calls + 1 ELSE commit_calls
            /\ last_event' = "completed"
            /\ UNCHANGED <<task_graph, failed_tasks, val_failures>>
       ELSE LET h == HandleValidationFailure(task_graph, failed_tasks, current_task,
                                             validation_results[1])
            IN /\ task_graph' = h.task_graph
               /\ failed_tasks' = h.failed_tasks
               /\ last_error_context' = h.last_error_context
               /\ last_event' = h.decision
               /\ val_failures' = [val_failures EXCEPT ![current_task] = @ + 1]
               /\ UNCHANGED <<completed_tasks, commit_calls, is_dirty>>
    /\ pc' = "iterate"
    /\ UNCHANGED <<task, task_explicitly_provided, max_iterations, current_iteration,
                   validation_results, iteration, current_task, edit_success,
                   validation_success, run_result, report, config, exec_calls,
                   validator_calls, edit_raised, resolverVars, plan_input, val_input,
                   exec_input>>

\* lines 978-988: the report is generated and run() returns
RunReport ==
    /\ pc = "report"
    /\ report' = <<GenerateReport>>
    /\ run_result' = IF RunSuccess THEN "True" ELSE "False"
    /\ pc' = "done"
    /\ last_event' = "reported"
    /\ UNCHANGED <<agentVars, iteration, current_task, edit_success,
                   validation_success, config, obsVars_but_event, resolverVars, envVars>>

Next ==
    \/ RunPlanning
    \/ RunSelect
    \/ RunLoopExhausted
    \/ RunEdit
    \/ RunValidate
    \/ RunDecide
    \/ RunReport

Spec == Init /\ [][Next]_vars

\* run() is sequential code: each of its steps is taken once it is reached
FairSpec == Spec /\ WF_vars(Next)

(***************************************************************************)
(* The planner on its own: planning_phase with what it was given kept in   *)
(* plan_input, and _create_task_graph called directly.                     *)
(***************************************************************************)
\* the known issues _create_task_graph is handed when called directly
IssueLists == SeqsUpTo({LintIssue, TestIssue}, MaxIssues)
NoResponse == [kind |-> "none", data |-> <<>>]

InitPlan ==
    /\ \E goal \in {<<DefaultTask, FALSE>>, <<DefaultTask, TRUE>>, <<StatedGoal, TRUE>>} :
          /\ task = goal[1]
          /\ task_explicitly_provided = goal[2]
    /\ max_iterations = MaxIter
    /\ config \in AllConfigs
    /\ current_iteration = 0
    /\ task_graph = <<>>
    /\ completed_tasks = <<>>
    /\ failed_tasks = <<>>
    /\ validation_results = <<>>
    /\ last_error_context = NoContext
    /\ pc = "planning"
    /\ iteration = 0
    /\ current_task = 0
    /\ edit_success = FALSE
    /\ validation_success = FALSE
    /\ run_result = "none"
    /\ report = <<>>
    /\ exec_calls = 0
    /\ validator_calls = 0
    /\ commit_calls = 0
    /\ edit_raised = FALSE
    /\ val_failures = <<>>
    /\ last_event = "none"
    /\ tasks = <<>>
    /\ resolved = <<>>
    /\ remaining = <<>>
    /\ passes = 0
    /\ forced_pass = FALSE
    /\ rpc = "idle"
    /\ is_dirty = FALSE
    /\ plan_input = <<>>
    /\ val_input = <<>>
    /\ exec_input = <<>>

\* planning_phase as run() calls it (lines 933-936)
PlanStep ==
    /\ pc = "planning"
    /\ \E user_task \in {"", DefaultTask, StatedGoal},
          files_in_chat \in BOOLEAN, lint_found \in BOOLEAN, test_failed \in BOOLEAN,
          response \in LLMResponses :
          IF ~task_explicitly_provided /\ user_task = ""
          THEN /\ pc' = "done"
               /\ run_result' = "False"
               /\ last_event' = "planning_failed"
               /\ plan_input' = <<[op |-> "planning_phase", user_task |-> user_task,
                                   files_in_chat |-> FALSE, issues |-> <<>>,
                                   response |-> NoResponse]>>
               /\ UNCHANGED <<task, task_explicitly_provided, task_graph, val_failures>>
          ELSE LET goal == IF task_explicitly_provided THEN task ELSE user_task
                   issues == AnalyzeCurrentIssues(config, lint_found, test_failed)
                   graph == LLMBasedTaskPlanning(goal, files_in_chat, issues, response)
               IN /\ task' = goal
                  /\ task_explicitly_provided' = TRUE
                  /\ task_graph' = graph
                  /\ val_failures' = [i \in 1..Len(graph) |-> 0]
                  /\ plan_input' = <<[op |-> "planning_phase",
                                      user_task |-> IF task_explicitly_provided
                                                    THEN "" ELSE user_task,
                                      files_in_chat |-> files_in_chat,
                                      issues |-> issues, response |-> response]>>
                  /\ IF PlanningOk(graph)
                     THEN /\ pc' = "iterate"
                          /\ run_result' = run_result
                          /\ last_event' = "planned"
                     ELSE /\ pc' = "done"
                          /\ run_result' = "False"
                          /\ last_event' = "planning_failed"
    /\ UNCHANGED <<max_iterations, current_iteration, completed_tasks, failed_tasks,
                   validation_results, last_error_context, iteration, current_task,
                   edit_success, validation_success, report, config,
                   exec_calls, validator_calls, commit_calls, edit_raised,
                   resolverVars, is_dirty, val_input, exec_input>>

\* _create_task_graph called on the agent's goal, a repository context and
\* a list of known issues
FallbackStep ==
    /\ pc = "planning"
    /\ \E files_in_chat \in BOOLEAN, issues \in IssueLists :
          /\ task_graph' = CreateTaskGraph(task, files_in_chat, issues)
          /\ plan_input' = <<[op |-> "create_task_graph", user_task |-> "",
                              files_in_chat |-> files_in_chat, issues |-> issues,
                              response |-> NoResponse]>>
    /\ pc' = "planned"
    /\ last_event' = "task_graph_created"
    /\ UNCHANGED <<task, task_explicitly_provided, max_iterations, current_iteration,
                   completed_tasks, failed_tasks, validation_results,
                   last_error_context, iteration, current_task, edit_success,
                   validation_success, run_result, report, config, obsVars_but_event,
                   resolverVars, is_dirty, val_input, exec_input>>

NextPlan == PlanStep \/ FallbackStep

SpecPlan == InitPlan /\ [][NextPlan]_vars

(***************************************************************************)
(* One validation pass and its outcome in run(), over every configuration  *)
(* and a wider choice of tracked files.                                    *)
(***************************************************************************)
\* further tracked files: two constructs in one file, a file open() fails
\* on, a file that is gone from disk, a file that is not Python
EvalShellFile == [name |-> "c.py", py |-> TRUE, exists |-> TRUE, readable |-> TRUE,
                  content |-> {"eval(", "shell=True"}]
UnreadableFile == [name |-> "d.py", py |-> TRUE, exists |-> TRUE, readable |-> FALSE,
                   content |-> {"exec("}]
MissingFile == [name |-> "e.py", py |-> TRUE, exists |-> FALSE, readable |-> FALSE,
                content |-> {}]
TextFile == [name |-> "notes.txt", py |-> FALSE, exists |-> TRUE, readable |-> TRUE,
             content |-> {"eval("}]
ScriptFile == [name |-> "app.js", py |-> FALSE, exists |-> TRUE, readable |-> TRUE,
               content |-> {"eval("}]
ScanFiles == {CleanFile, RiskyFile, EvalShellFile, UnreadableFile, MissingFile,
              TextFile, ScriptFile}
\* coder.abs_fnames is a set: no file twice, any order
ScanFileLists == {l \in SeqsUpTo(ScanFiles, MaxFiles) :
                     \A i, j \in 1..Len(l) : l[i] = l[j] => i = j}

\* run() has planned one task, selected it and edited it
InitValidate ==
    /\ task = StatedGoal
    /\ task_explicitly_provided = TRUE
    /\ max_iterations = MaxIter
    /\ config \in AllConfigs
    /\ current_iteration = 1
    /\ task_graph = <<Task(StatedGoal, "feature_implementation", 1, <<>>)>>
    /\ completed_tasks = <<>>
    /\ failed_tasks = <<>>
    /\ validation_results = <<>>
    /\ last_error_context = NoContext
    /\ pc = "validate"
    /\ iteration = 1
    /\ current_task = 1
    /\ edit_success = TRUE
    /\ validation_success = FALSE
    /\ run_result = "none"
    /\ report = <<>>
    /\ exec_calls = 1
    /\ validator_calls = 0
    /\ commit_calls = 0
    /\ edit_raised = FALSE
    /\ val_failures = <<0>>
    /\ last_event = "edit_ok"
    /\ tasks = <<>>
    /\ resolved = <<>>
    /\ remaining = <<>>
    /\ passes = 0
    /\ forced_pass = FALSE
    /\ rpc = "idle"
    /\ is_dirty = FALSE
    /\ plan_input = <<>>
    /\ val_input = <<>>
    /\ exec_input = <<>>

\* code_execution_validation_phase, with what it found kept in val_input
ValidatePass ==
    /\ pc = "validate"
    /\ validator_calls' = validator_calls + 1
    /\ \E fnames \in ScanFileLists, lint \in LintOutcomes, test \in TestOutcomes :
          LET vr == ValidationResults(config, config.enable_security_scan,
                                      fnames, lint, test)
          IN /\ validation_results' = <<vr>>
             /\ validation_success' = OverallSuccess(vr)
             /\ val_input' = <<[fnames |-> fnames, lint |-> lint, test |-> test,
                                 ran |-> ChecksRun(config, config.enable_security_scan,
                                                   fnames, lint, test)]>>
    /\ pc' = "decide"
    /\ last_event' = "validated"
    /\ UNCHANGED <<task, task_explicitly_provided, max_iterations, current_iteration,
                   task_graph, completed_tasks, failed_tasks, last_error_context,
                   iteration, current_task, edit_success, run_result, report, config,
                   exec_calls, commit_calls, edit_raised, val_failures, resolverVars,
                   is_dirty, plan_input, exec_input>>

NextValidate == ValidatePass \/ RunDecide

SpecValidate == InitValidate /\ [][NextValidate]_vars

(***************************************************************************)
(* One executor call with the search collaborator: the task's kind and     *)
(* details, the stored error context, the web-search configuration, and    *)
(* what the search and the edit collaborator do, range over all cases.     *)
(***************************************************************************)
\* task["type"] as the executor tests it; "refactor" stands for the kinds it
\* does not name
TaskKinds == {"feature_implementation", "improvement", "fix_tests", "fix_lint",
              "refactor"}

\* task["details"], as the set of the tested keywords its lower-cased text
\* contains ("jac language" contains "jac")
SearchKeywords == {"jac", "documentation", "create"}
DetailTexts == {{}, {"jac"}, {"documentation"}, {"create"}}

\* self.web_searcher: None when the import failed, else a searcher whose
\* is_available() tells whether an API key is configured
Searchers == {"none", "no_key", "ready"}

\* what search_multiple_queries does: it returns result text, a text starting
\* with "No", an empty text, or raises
SearchOutcomes == {"results", "no_results", "empty", "raise"}

\* the error contexts an executor call may find: None, the text of an edit
\* exception, the joined messages of a validation failure
ErrorContexts ==
    {NoContext,
     [kind |-> "edit", segments |-> <<>>],
     [kind |-> "validation",
      segments |-> <<[label |-> "Test failures", payload |-> Output("test output")]>>]}

\* `self.last_error_context is not None`
ContextIsNotNone(ctx) == ctx.kind # "None"

\* `if self.last_error_context`: the texts modelled are not empty
ContextTruthy(ctx) == ctx.kind # "None"

\* a search test that looks at the task only
ShouldSearchWeb_IgnoreSearcher(searcher, kind, details, ctx) ==
    \/ kind \in {"feature_implementation", "improvement"}
    \/ ContextIsNotNone(ctx)
    \/ details \cap SearchKeywords # {}

\* _should_search_web
ShouldSearchWeb(searcher, kind, details, ctx) ==
    IF searcher # "ready" THEN FALSE
    ELSE \/ kind \in {"feature_implementation", "improvement"}
         \/ ContextIsNotNone(ctx)
         \/ details \cap SearchKeywords # {}

\* _generate_search_queries: the queries, by what they ask for
GenerateSearchQueries(kind, details, ctx) ==
    IF kind = "feature_implementation"
    THEN IF "jac" \in details
         THEN <<"jac syntax", "jac documentation", "jac details">>
         ELSE <<"how to implement", "best practices">>
    ELSE IF kind = "fix_tests" THEN <<"test debugging", "test failure">>
    ELSE IF kind = "fix_lint" THEN <<"linting errors", "code style">>
    ELSE IF ContextTruthy(ctx) THEN <<"error solution">>
    ELSE <<>>

\* a search whose answer is used whatever it says
PerformWebSearch_UseAnyAnswer(kind, details, ctx, outcome) ==
    LET search_queries == GenerateSearchQueries(kind, details, ctx)
    IN IF search_queries = <<>>
       THEN [calls |-> 0, queries |-> <<>>, web_context |-> FALSE]
       ELSE [calls |-> 1,
             queries |-> SubSeq(search_queries, 1, IF Len(search_queries) < 2
                                                   THEN Len(search_queries) ELSE 2),
             web_context |-> outcome \in {"results", "no_results"}]

\* _perform_web_search: how often search_multiple_queries is called, with
\* which queries, and whether a context comes back (None otherwise)
PerformWebSearch(kind, details, ctx, outcome) ==
    LET search_queries == GenerateSearchQueries(kind, details, ctx)
    IN IF search_queries = <<>>
       THEN [calls |-> 0, queries |-> <<>>, web_context |-> FALSE]
       ELSE [calls |-> 1,
             queries |-> SubSeq(search_queries, 1, IF Len(search_queries) < 2
                                                   THEN Len(search_queries) ELSE 2),
             web_context |-> outcome = "results"]

NoSearch == [calls |-> 0, queries |-> <<>>, web_context |-> FALSE]

\* the message handed to coder.run: the task's instruction, the note on a
\* previous failure (lines 647-649) and the web context (lines 581-582)
ExecutorMessage(kind, ctx, search) ==
    [instruction |-> kind, note |-> ContextTruthy(ctx),
     web_context |-> search.web_context]

\* run() has selected the only task of the graph
InitExecute ==
    /\ task = StatedGoal
    /\ task_explicitly_provided = TRUE
    /\ max_iterations = MaxIter
    /\ config = IdleConfig
    /\ current_iteration = 1
    /\ \E kind \in TaskKinds : task_graph = <<Task(StatedGoal, kind, 1, <<>>)>>
    /\ completed_tasks = <<>>
    /\ failed_tasks = <<>>
    /\ validation_results = <<>>
    /\ last_error_context \in ErrorContexts
    /\ pc = "edit"
    /\ iteration = 1
    /\ current_task = 1
    /\ edit_success = FALSE
    /\ validation_success = FALSE
    /\ run_result = "none"
    /\ report = <<>>
    /\ exec_calls = 0
    /\ validator_calls = 0
    /\ commit_calls = 0
    /\ edit_raised = FALSE
    /\ val_failures = <<0>>
    /\ last_event = "selected"
    /\ tasks = <<>>
    /\ resolved = <<>>
    /\ remaining = <<>>
    /\ passes = 0
    /\ forced_pass = FALSE
    /\ rpc = "idle"
    /\ is_dirty = FALSE
    /\ plan_input = <<>>
    /\ val_input = <<>>
    /\ \E enabled \in BOOLEAN, searcher \in Searchers, details \in DetailTexts :
          exec_input = <<[op |-> "pending", enable_web_search |-> enabled,
                          searcher |-> searcher, details |-> details,
                          context |-> last_error_context, outcome |-> "none",
                          search |-> NoSearch, edit_calls |-> 0,
                          message |-> ExecutorMessage("none", NoContext, NoSearch)]>>

\* lines 955-959 with editing_code_generation_phase: the message is prepared,
\* the search collaborator is asked when _should_search_web says so, and the
\* edit collaborator is run with the message
ExecuteStep ==
    /\ pc = "edit"
    /\ exec_input # <<>> /\ exec_input[1].op = "pending"
    /\ exec_calls' = exec_calls + 1
    /\ \E outcome \in SearchOutcomes, raises \in BOOLEAN :
          LET given == exec_input[1]
              kind == task_graph[current_task].type
              asked == given.enable_web_search
                       /\ ShouldSearchWeb(given.searcher, kind, given.details,
                                          last_error_context)
              search == IF asked
                        THEN PerformWebSearch(kind, given.details, last_error_context,
                                              outcome)
                        ELSE NoSearch
              r == EditingCodeGenerationPhase(last_error_context, raises)
          IN /\ search.calls = 0 => outcome = "results"
             /\ exec_input' = <<[given EXCEPT
                                   !.op = "done",
                                   !.outcome = IF search.calls = 1 THEN outcome
                                               ELSE "none",
                                   !.search = search,
                                   !.edit_calls = 1,
                                   !.message = ExecutorMessage(kind, last_error_context,
                                                               search)]>>
             /\ edit_raised' = raises
             /\ edit_success' = r.success
             /\ last_error_context' = r.last_error_context
             /\ IF ~r.success
                THEN /\ failed_tasks' = Append(failed_tasks, current_task)
                     /\ pc' = "iterate"
                     /\ last_event' = "edit_failed"
                ELSE /\ failed_tasks' = failed_tasks
                     /\ pc' = "validate"
                     /\ last_event' = "edit_ok"
    /\ UNCHANGED <<task, task_explicitly_provided, max_iterations, current_iteration,
                   task_graph, completed_tasks, validation_results, iteration,
                   current_task, validation_success, run_result, report, config,
                   validator_calls, commit_calls, val_failures, resolverVars,
                   is_dirty, plan_input, val_input>>

NextExecute == ExecuteStep

SpecExecute == InitExecute /\ [][NextExecute]_vars

(***************************************************************************)
(* Properties of the run loop.                                             *)
(***************************************************************************)
Positions == 1..Len(task_graph)
Completed == Range(completed_tasks)
Failed == Range(failed_tasks)
CompletedNames == {task_graph[i].name : i \in Completed}

\* C1: whenever a task is passed to the executor, every name in its
\* dependencies is the name of a task that is already in Completed.
C1_DependenciesCompleted ==
    pc = "edit" =>
        \A k \in 1..Len(task_graph[current_task].dependencies) :
            task_graph[current_task].dependencies[k] \in CompletedNames

\* C2: a task whose validation failed three times (its edits succeeding) is
\* in Failed after the third failure, is not passed to the executor again,
\* and is listed under the failed tasks of the final report.
C2_ThirdFailureAbandons ==
    \A i \in Positions :
        (val_failures[i] >= 3 /\ pc # "decide") =>
            /\ i \in Failed
            /\ ~(pc = "edit" /\ current_task = i)
            /\ (report # <<>> => task_graph[i].name \in Range(report[1].failed))

\* C3: every task's retry_count is between 0 and 2, in Failed or not.
C3_RetryCountBounded ==
    \A i \in Positions : task_graph[i].retry_count \in 0..2

\* a task has failed validation twice and is about to be run a third time
C3_Witness ==
    /\ pc = "edit"
    /\ val_failures[current_task] = 2
    /\ task_graph[current_task].retry_count > 0

IsPrefix(s, t) == Len(s) <= Len(t) /\ SubSeq(t, 1, Len(s)) = s

NoRepeat(lst) ==
    \A k, l \in 1..Len(lst) :
        k # l => lst[k] # lst[l] /\ task_graph[lst[k]] # task_graph[lst[l]]

C6_Inv ==
    /\ NoRepeat(completed_tasks)
    /\ NoRepeat(failed_tasks)
    /\ \A i \in Completed, j \in Failed : i # j /\ task_graph[i] # task_graph[j]
    /\ pc = "edit" =>
          /\ current_task \notin Completed \cup Failed
          /\ ~TaskIn(task_graph, current_task, completed_tasks)
          /\ ~TaskIn(task_graph, current_task, failed_tasks)

\* C6: Completed and Failed share no task and hold no task twice (as
\* objects and as values), both only grow by appending, and a task that is
\* in either is not passed to the executor.
C6_TerminalOnce ==
    /\ C6_Inv
    /\ [][/\ C6_Inv'
          /\ IsPrefix(completed_tasks, completed_tasks')
          /\ IsPrefix(failed_tasks, failed_tasks')]_vars

\* with one task completed and one failed, no task is left to select
C6_Witness ==
    /\ Len(completed_tasks) = 1
    /\ Len(failed_tasks) = 1
    /\ last_event = "no_task"

C7_Inv ==
    /\ iteration <= max_iterations
    /\ current_iteration <= max_iterations
    /\ exec_calls <= current_iteration
    /\ (pc = "done" /\ task_graph # <<>>) =>
          /\ report # <<>>
          /\ run_result \in {"True", "False"}

\* C7: every run reaches Done; the iterations started, the executor calls
\* and current_iteration never exceed max_iterations; a run that planned
\* tasks ends with its report produced and a result returned, also when the
\* budget ran out.
C7_BudgetBoundsRun == []C7_Inv /\ <>(pc = "done")

\* the budget ran out with a task still open, and the report was produced
C7_Witness ==
    /\ pc = "done"
    /\ report # <<>>
    /\ exec_calls = max_iterations
    /\ report[1].iterations = max_iterations
    /\ GetNextTask(task_graph, completed_tasks, failed_tasks) # 0

\* C8: a step of the executor in which the edit collaborator raises appends
\* the task to Failed, runs no validation, leaves every retry_count and
\* Completed as they are, and leaves run() at the head of its loop, not
\* returned.
C8_EditFailureFailsTask ==
    [][(pc = "edit" /\ pc' # "edit" /\ edit_raised') =>
          /\ failed_tasks' = Append(failed_tasks, current_task)
          /\ completed_tasks' = completed_tasks
          /\ validator_calls' = validator_calls
          /\ validation_results' = validation_results
          /\ task_graph' = task_graph
          /\ iteration' = iteration
          /\ pc' = "iterate"
          /\ run_result' = "none"]_vars

\* an edit raised before any validation ran and the task is in Failed
C8_Witness ==
    /\ pc = "iterate"
    /\ edit_raised
    /\ last_event = "edit_failed"
    /\ failed_tasks = <<current_task>>
    /\ validator_calls = 0

\* C9: in a graph of two tasks where B depends on A and A's edit raised (so
\* that A is in Failed without a retry), B is not passed to the executor, B
\* is in neither Completed nor Failed, and the loop ends by using up its
\* iterations.
C9_DependentNeverRuns ==
    (/\ Len(task_graph) = 2
     /\ task_graph[1].name = "A" /\ task_graph[1].dependencies = <<>>
     /\ task_graph[2].name = "B" /\ task_graph[2].dependencies = <<"A">>
     /\ 1 \in Failed /\ val_failures[1] = 0) =>
        /\ ~(pc \in {"edit", "validate", "decide"} /\ current_task = 2)
        /\ 2 \notin Completed \cup Failed
        /\ pc \in {"report", "done"} => last_event # "no_task"

\* C10: the verdict of a validation pass is true exactly when lint_passed,
\* tests_passed and security_passed are all true.
C10_VerdictIsConjunction ==
    pc = "decide" =>
        /\ validation_success \in BOOLEAN
        /\ validation_success <=>
              (/\ validation_results[1].lint_passed
               /\ validation_results[1].tests_passed
               /\ validation_results[1].security_passed)

\* a pass in which only the lint check failed
C10_Witness ==
    /\ pc = "decide"
    /\ ~validation_success
    /\ ~validation_results[1].lint_passed
    /\ validation_results[1].tests_passed
    /\ validation_results[1].security_passed

(***************************************************************************)
(* Properties of the dependency resolver.                                  *)
(***************************************************************************)
\* the dependency edges of a task list, by name
Edges(ts) ==
    UNION {{<<ts[i].name, ts[i].dependencies[k]>> : k \in 1..Len(ts[i].dependencies)} :
              i \in 1..Len(ts)}

Successors(E, S) == {e[2] : e \in {x \in E : x[1] \in S}}

RECURSIVE ReachFrom(_, _, _)
ReachFrom(E, S, n) ==
    IF n = 0 THEN S ELSE ReachFrom(E, S \cup Successors(E, S), n - 1)

\* no name depends on itself, directly or through other names
Acyclic(ts) ==
    LET E == Edges(ts)
    IN \A e \in E : e[1] \notin ReachFrom(E, Successors(E, {e[1]}), Cardinality(E))

UniqueNames(ts) == \A i, j \in 1..Len(ts) : ts[i].name = ts[j].name => i = j

DepsExist(ts) == \A e \in Edges(ts) : e[2] \in ResolvedNames(ts)

\* no task stands before a task whose name is among its dependencies
Ordered(res) ==
    \A i, j \in 1..Len(res) :
        i < j => res[j].name \notin Range(res[i].dependencies)

\* C4 as stated: for every task list with acyclic dependencies, whatever the
\* dependency names, the resolver's output places no task before a task it
\* depends on.
C4_AcyclicOrdered ==
    (rpc = "done" /\ Acyclic(tasks)) => Ordered(resolved)

\* C4 amended: for every task list with pairwise distinct names and acyclic
\* dependencies that all name a task of the list, the resolver's output
\* places no task before a task it depends on.
C4_AcyclicClosedOrdered ==
    (rpc = "done" /\ Acyclic(tasks) /\ UniqueNames(tasks) /\ DepsExist(tasks))
        => Ordered(resolved)

\* three tasks given in the reverse of their dependency order are resolved
C4_Witness ==
    /\ rpc = "done"
    /\ Len(tasks) = 3
    /\ Acyclic(tasks) /\ UniqueNames(tasks) /\ DepsExist(tasks)
    /\ tasks[1].dependencies = <<tasks[2].name>>
    /\ tasks[2].dependencies = <<tasks[3].name>>
    /\ resolved = <<tasks[3], tasks[2], tasks[1]>>

Count(s, x) == Cardinality({i \in 1..Len(s) : s[i] = x})

\* C5: for every list of n tasks, cyclic or with dangling dependencies or
\* not, every pass appends a task, so the loop ends within n passes, and the
\* result holds every input task exactly once.
C5_TerminatesWithPermutation ==
    /\ passes <= Len(resolved)
    /\ Len(resolved) + Len(remaining) = Len(tasks)
    /\ passes <= Len(tasks)
    /\ rpc = "done" =>
          /\ remaining = <<>>
          /\ \A x \in Range(tasks) \cup Range(resolved) :
                 Count(resolved, x) = Count(tasks, x)

\* a list of three tasks on a dependency cycle took three passes
C5_Witness ==
    /\ rpc = "done"
    /\ Len(tasks) = 3
    /\ UniqueNames(tasks) /\ DepsExist(tasks)
    /\ ~Acyclic(tasks)
    /\ passes = 3
    /\ forced_pass

(***************************************************************************)
(* Properties of one validation pass (SpecValidate).                       *)
(***************************************************************************)
ValInput == val_input[1]
LastResults == validation_results[1]
\* which checks the pass runs
LintRuns == config.auto_lint /\ ValInput.fnames # <<>>
TestRuns == config.auto_test /\ config.test_cmd
ScanRuns == config.enable_security_scan
\* which checks raise internally
LintRaises == LintRuns /\ ValInput.lint = "raise"
TestRaises == TestRuns /\ ValInput.test = "raise"
ScanRaises == ScanRuns /\ \E f \in Range(ValInput.fnames) :
                              f.py /\ f.exists /\ ~f.readable
\* the findings of the files the scan can read
ReadableFindings ==
    UNION {{<<f.name, c>> : c \in f.content \cap Range(Constructs)} :
              f \in {g \in Range(ValInput.fnames) : g.py /\ g.exists /\ g.readable}}
\* each verdict as the check's own outcome determines it
LintOwnVerdict == LastResults.lint_passed = (~LintRuns \/ ValInput.lint = "ok")
TestOwnVerdict == LastResults.tests_passed = (~TestRuns \/ ValInput.test = "ok")
ScanOwnVerdict == LastResults.security_passed = (~ScanRuns \/ ReadableFindings = {})

\* C11 as stated: when exactly one of the three checks raises internally,
\* that check's verdict is false with a diagnostic, and the other two
\* verdicts are those their own outcomes determine.
C11_RaisingCheckFails ==
    val_input # <<>> =>
        /\ (LintRaises /\ ~TestRaises /\ ~ScanRaises) =>
               /\ ~LastResults.lint_passed /\ Truthy(LastResults.lint_output)
               /\ TestOwnVerdict /\ ScanOwnVerdict
        /\ (TestRaises /\ ~LintRaises /\ ~ScanRaises) =>
               /\ ~LastResults.tests_passed /\ Truthy(LastResults.test_output)
               /\ LintOwnVerdict /\ ScanOwnVerdict
        /\ (ScanRaises /\ ~LintRaises /\ ~TestRaises) =>
               /\ ~LastResults.security_passed
               /\ LastResults.security_output.text = "security issues"
               /\ LintOwnVerdict /\ TestOwnVerdict

\* C11 amended: a lint or test check that raises is recorded false with the
\* exception's text, and every check that does not raise has the verdict
\* its own outcome determines; a file the security scan cannot read is
\* skipped, so the security verdict and findings are those of the files it
\* can read.
C11_RaisingCheckIsolated ==
    val_input # <<>> =>
        /\ LintRaises => /\ ~LastResults.lint_passed
                         /\ LastResults.lint_output = Output("lint exception")
        /\ TestRaises => /\ ~LastResults.tests_passed
                         /\ LastResults.test_output = Output("test exception")
        /\ LintOwnVerdict
        /\ TestOwnVerdict
        /\ ScanOwnVerdict
        /\ Range(LastResults.security_output.issues) =
               IF ScanRuns THEN ReadableFindings ELSE {}

\* a pass in which lint raises, the tests fail on their own and the scan
\* skips an unreadable file, flagging nothing
C11_Witness ==
    /\ val_input # <<>>
    /\ LintRaises /\ TestRuns /\ ValInput.test = "output" /\ ScanRaises
    /\ ~LastResults.lint_passed
    /\ ~LastResults.tests_passed
    /\ LastResults.security_passed

\* the pass found lint and tests passing (or not run) and the scan flagging
\* a file
SecurityOnlyFailure ==
    /\ val_input # <<>>
    /\ ~LintRuns \/ ValInput.lint = "ok"
    /\ ~TestRuns \/ ValInput.test = "ok"
    /\ ScanRuns /\ ReadableFindings # {}

\* C18: when the security scan flags a file while lint and tests pass, the
\* overall verdict is false, and once the failure is handled the stored
\* error context holds the security diagnostic and no lint or test
\* diagnostic.
C18_SecurityOnlyContext ==
    SecurityOnlyFailure =>
        /\ ~validation_success
        /\ pc = "iterate" =>
              /\ last_error_context.kind = "validation"
              /\ Len(last_error_context.segments) = 1
              /\ last_error_context.segments[1].label = "Security issues"
              /\ last_error_context.segments[1].payload = LastResults.security_output
              /\ Range(last_error_context.segments[1].payload.issues) = ReadableFindings

\* lint and tests both ran and passed, the scan flagged a file, and the
\* failure has been handled
C18_Witness ==
    /\ SecurityOnlyFailure
    /\ LintRuns /\ TestRuns
    /\ pc = "iterate"
    /\ last_event = "retry"
    /\ last_error_context.segments # <<>>

(***************************************************************************)
(* Further properties of the run loop (Spec).                              *)
(***************************************************************************)
\* C12: run() returns true exactly when Completed holds a task at loop exit
\* and the last recorded validation result, if there is one, has tests_passed
\* and security_passed; lint_passed and Failed play no part.
C12_RunResult ==
    pc = "done" =>
        (run_result = "True" <=>
            /\ Len(completed_tasks) >= 1
            /\ validation_results # <<>> =>
                  /\ validation_results[1].tests_passed
                  /\ validation_results[1].security_passed)

\* run() returned true although the last pass failed its lint check
C12_Witness ==
    /\ pc = "done"
    /\ run_result = "True"
    /\ ~validation_results[1].lint_passed
    /\ val_failures # [i \in 1..Len(task_graph) |-> 0]

\* C19: when planning fails or plans no task, run() goes from planning
\* straight to done: no executor call, no validation pass, no commit, both
\* lists empty, current_iteration 0, and the result is false.
C19_PlanningFailureEndsRun ==
    (pc # "planning" /\ (last_event = "planning_failed" \/ task_graph = <<>>)) =>
        /\ pc = "done"
        /\ exec_calls = 0 /\ validator_calls = 0 /\ commit_calls = 0
        /\ completed_tasks = <<>> /\ failed_tasks = <<>>
        /\ current_iteration = 0 /\ iteration = 0
        /\ run_result = "False"

\* a goal was there and the planner produced no task
C19_Witness ==
    /\ last_event = "planning_failed"
    /\ task = StatedGoal
    /\ task_graph = <<>>
    /\ run_result = "False"

C20_Inv == commit_calls <= Len(completed_tasks)

\* C20: cmd_commit is called only in an iteration whose validation
\* succeeded, with auto_commits on and the dirty check true; once for the
\* task that iteration completes, never in an iteration that fails, retries
\* or abandons a task.
C20_CommitOnlyOnSuccess ==
    /\ C20_Inv
    /\ [][/\ C20_Inv'
          /\ commit_calls' # commit_calls =>
                /\ pc = "decide" /\ validation_success
                /\ config.auto_commits /\ is_dirty'
                /\ commit_calls' = commit_calls + 1
                /\ completed_tasks' = Append(completed_tasks, current_task)
                /\ failed_tasks' = failed_tasks
                /\ task_graph' = task_graph
                /\ val_failures' = val_failures
                /\ last_event' = "completed"]_vars

\* two tasks completed, the first committed, the second found clean and
\* left uncommitted
C20_Witness ==
    /\ Len(completed_tasks) = 2
    /\ commit_calls = 1
    /\ config.auto_commits
    /\ ~is_dirty

\* Scenario A: a stated goal, lint and tests not configured, and the one
\* task the rule-based planner makes of a stated goal with no known issue
ScenarioA ==
    /\ task = StatedGoal
    /\ ~config.auto_lint /\ ~config.auto_test
    /\ Len(task_graph) = 1
    /\ [task_graph[1] EXCEPT !.retry_count = 0] =
           Task(StatedGoal, "feature_implementation", 1, <<>>)

ScenarioAPlan ==
    \A files_in_chat \in BOOLEAN :
        CreateTaskGraph(StatedGoal, files_in_chat, <<>>) =
            <<Task(StatedGoal, "feature_implementation", 1, <<>>)>>

ScenarioAOutcome ==
    /\ completed_tasks = <<1>>
    /\ failed_tasks = <<>>
    /\ exec_calls = 1
    /\ validator_calls = 1
    /\ validation_results # <<>>
    /\ validation_results[1].lint_passed
    /\ validation_results[1].tests_passed
    /\ validation_results[1].security_passed
    /\ run_result = "True"

\* C17 as stated, read with an edit collaborator that does not raise: in
\* Scenario A the planner yields one priority-1 feature_implementation task
\* and the run completes it after one executor call and one validation pass
\* with all three verdicts true, returning true.
C17_ScenarioA ==
    /\ ScenarioAPlan
    /\ (ScenarioA /\ pc = "done" /\ ~edit_raised) => ScenarioAOutcome

\* C17 amended: the same, when in addition no validation pass of the run
\* failed; in Scenario A lint and tests always pass, so a pass fails exactly
\* when the security scan is on and flags a file.
C17_ScenarioAClean ==
    /\ ScenarioAPlan
    /\ (ScenarioA /\ validation_results # <<>>) =>
          /\ validation_results[1].lint_passed
          /\ validation_results[1].tests_passed
          /\ pc = "decide" =>
                validation_success = validation_results[1].security_passed
    /\ (/\ ScenarioA /\ pc = "done" /\ ~edit_raised
        /\ val_failures[1] = 0
        /\ validation_results # <<>> => validation_results[1].security_passed)
       => ScenarioAOutcome

\* Scenario A ran to its end with the security scan on and finding nothing
C17_Witness ==
    /\ ScenarioA /\ pc = "done"
    /\ config.enable_security_scan
    /\ ScenarioAOutcome
    /\ validation_results[1].security_output = Output("No security issues detected")

(***************************************************************************)
(* Properties of the planner (SpecPlan).                                   *)
(***************************************************************************)
PlanInput == plan_input[1]
\* planning_phase has returned
PlanningReturned == plan_input # <<>> /\ PlanInput.op = "planning_phase"
\* a goal was given at construction or typed by the user
GoalSupplied == task_explicitly_provided
HighTestFailures(issues) ==
    Cardinality({k \in 1..Len(issues) :
                    issues[k].type = "test" /\ issues[k].priority = "high"})

\* C13 as stated: with a goal supplied planning succeeds with a non-empty
\* task list whatever the delegate answers, and planning fails only when no
\* goal was supplied.
C13_GoalPlansTasks ==
    PlanningReturned =>
        /\ GoalSupplied => (pc = "iterate" /\ task_graph # <<>>)
        /\ pc = "done" => ~GoalSupplied

\* the delegate answered an empty JSON array, or it raised or answered
\* nothing and the rule-based planner had nothing to plan: the default goal,
\* no file in the chat, no failing test
NothingPlanned ==
    \/ PlanInput.response.kind = "array" /\ PlanInput.response.data = <<>>
    \/ /\ PlanInput.response.kind \in {"raise", "empty"}
       /\ task = DefaultTask
       /\ ~PlanInput.files_in_chat
       /\ HighTestFailures(PlanInput.issues) = 0

\* C13 amended: with a goal supplied planning succeeds with a non-empty task
\* list unless nothing was planned (NothingPlanned), and planning fails only
\* when no goal was supplied or the planned list is empty.
C13_GoalPlansTasksUnlessEmpty ==
    PlanningReturned =>
        /\ GoalSupplied =>
              /\ ~NothingPlanned => (pc = "iterate" /\ task_graph # <<>>)
              /\ NothingPlanned => (pc = "done" /\ task_graph = <<>>)
        /\ pc = "done" => (~GoalSupplied \/ task_graph = <<>>)
        /\ pc = "iterate" => task_graph # <<>>

\* a stated goal, and a delegate whose text holds no JSON array: the task
\* the parser falls back to is planned
C13_Witness ==
    /\ PlanningReturned
    /\ task = StatedGoal
    /\ PlanInput.response.kind = "unparsable"
    /\ pc = "iterate"
    /\ Len(task_graph) = 1

\* C14 as stated: when the delegate raises, answers nothing or answers text
\* that is no JSON array of task objects, the planner returns the rule-based
\* planner's list, and planning_phase returns to its caller.
C14_FallbackIsRuleBased ==
    (PlanningReturned /\ GoalSupplied
     /\ PlanInput.response.kind \in {"raise", "empty", "unparsable"}) =>
        /\ task_graph = CreateTaskGraph(task, PlanInput.files_in_chat, PlanInput.issues)
        /\ pc \in {"iterate", "done"}

\* C14 amended: a delegate that raises or answers nothing gets the
\* rule-based planner's list; text that is no JSON array of task objects
\* gets one priority-1 task for the goal, a feature_implementation task
\* named after a stated goal or an improvement task "Improve codebase" for
\* the default goal.
C14_FallbackBySilenceOrSingleTask ==
    (PlanningReturned /\ GoalSupplied) =>
        /\ PlanInput.response.kind \in {"raise", "empty"} =>
              task_graph = CreateTaskGraph(task, PlanInput.files_in_chat,
                                           PlanInput.issues)
        /\ PlanInput.response.kind = "unparsable" =>
              task_graph =
                  <<IF task = DefaultTask
                    THEN Task("Improve codebase", "improvement", 1, <<>>)
                    ELSE Task(task, "feature_implementation", 1, <<>>)>>
        /\ pc \in {"iterate", "done"}

\* the delegate raised with a failing test known: the rule-based list of
\* two tasks is planned
C14_Witness ==
    /\ PlanningReturned
    /\ task = StatedGoal
    /\ PlanInput.response.kind = "raise"
    /\ Len(task_graph) = 2
    /\ task_graph[2].type = "fix_tests"

\* _create_task_graph has returned
GraphCreated == plan_input # <<>> /\ PlanInput.op = "create_task_graph"
FixTasks(n) == [k \in 1..n |-> Task("Fix critical failing tests", "fix_tests", 2, <<>>)]
FeatureTask == Task(task, "feature_implementation", 1, <<>>)
QualityTask == Task("Improve code quality and documentation", "improvement", 1, <<>>)

\* C15 as stated: the rule-based planner returns, in ascending priority, one
\* priority-1 feature_implementation task for a stated goal, or a priority-1
\* improvement task in its place for the default goal, then one priority-2
\* fix_tests task per high-priority test failure, and no task for a lint
\* issue.
C15_RuleBasedList ==
    GraphCreated =>
        task_graph = <<IF task = DefaultTask THEN QualityTask ELSE FeatureTask>>
                     \o FixTasks(HighTestFailures(PlanInput.issues))

\* C15 amended: as stated, except that for the default goal the improvement
\* task is there only when a file is in the chat.
C15_RuleBasedListFilesInChat ==
    GraphCreated =>
        task_graph = (IF task # DefaultTask THEN <<FeatureTask>>
                      ELSE IF PlanInput.files_in_chat THEN <<QualityTask>>
                      ELSE <<>>)
                     \o FixTasks(HighTestFailures(PlanInput.issues))

\* the default goal with a file in the chat, a lint issue and a failing
\* test: the improvement task comes first, the fix second, nothing for lint
C15_Witness ==
    /\ GraphCreated
    /\ task = DefaultTask
    /\ PlanInput.files_in_chat
    /\ PlanInput.issues = <<LintIssue, TestIssue>>
    /\ Len(task_graph) = 2
    /\ task_graph[1].type = "improvement"


(***************************************************************************)
(* Priorities of a planned list.                                           *)
(***************************************************************************)
\* C21: every non-empty task list the planner returns for a stated goal,
\* by the rule-based fallback or by delegated planning, contains a task of
\* priority 1 and no task of a smaller priority number.  The priorities of a
\* delegated list are the delegate's own (lines 503-510 copy them, with 3 as
\* the default), so a list of priority-2 tasks is returned as it came.
C21_GoalTaskHasPriorityOne ==
    (PlanningReturned \/ GraphCreated) /\ task = StatedGoal /\ task_graph # <<>>
        => /\ \E i \in 1..Len(task_graph) : task_graph[i].priority = 1
           /\ \A i \in 1..Len(task_graph) : task_graph[i].priority >= 1


(***************************************************************************)
(* Retry counting and the error context handed to the executor.            *)
(***************************************************************************)
\* the task at position i was appended to neither list
NonTerminal(i) == i \notin Range(completed_tasks) \cup Range(failed_tasks)

\* C22: retry_count counts the validation failures of a task up to the cap:
\* after k <= 2 validation failures of a non-terminal task its retry_count
\* is k.  The handler writes getattr(task, 'retry_count', 0) + 1, and the
\* getattr of a dict is always the default, so the count stays 1 from the
\* first failure on.
C22_RetryCountCountsFailures ==
    \A i \in 1..Len(task_graph) :
        NonTerminal(i) /\ val_failures[i] <= RetryLimit
            => task_graph[i].retry_count = val_failures[i]

\* C23: when the executor is called for a task with a non-empty error
\* context, the context comes from the validation failure of the preceding
\* attempt of that same task; a first attempt gets none.  An edit exception
\* stores its text (line 590) and sends the task to Failed; nothing clears
\* the text before the next task's first attempt.
C23_ContextFromSameTask ==
    pc = "edit" /\ last_error_context # NoContext
        => /\ last_error_context.kind = "validation"
           /\ val_failures[current_task] > 0


\* C24: an iteration whose edit and validation both succeeded puts the
\* executed task in Completed and leaves the stored error context empty,
\* whatever the context was before.
C24_SuccessClearsContext ==
    [][pc = "decide" /\ validation_success
          => /\ edit_success
             /\ completed_tasks' = Append(completed_tasks, current_task)
             /\ last_error_context' = NoContext]_vars

\* a task is completed on the attempt after a validation failure, whose
\* context the success cleared
C24_Witness ==
    /\ last_event = "completed"
    /\ val_failures[current_task] > 0
    /\ current_task \in Range(completed_tasks)
    /\ last_error_context = NoContext


(***************************************************************************)
(* Selection after a retry and in general.                                 *)
(***************************************************************************)
\* C25: after the feedback controller decides retry for a task, the task is
\* in neither list, as _get_next_task tests it, and is the task the next
\* iteration passes to the executor.  The lists are tested with `in`, which
\* compares dicts by value: the handler's retry_count write can make the
\* retried dict equal to one already in Completed or Failed.
C25_RetriedTaskRunsNext ==
    last_event = "retry"
        => /\ ~TaskIn(task_graph, current_task, completed_tasks)
           /\ ~TaskIn(task_graph, current_task, failed_tasks)
           /\ GetNextTask(task_graph, completed_tasks, failed_tasks) = current_task


\* the task at position i is in Completed or in Failed, as the `in` of
\* _get_next_task tests it
InEitherList(i) ==
    \/ \E k \in 1..Len(completed_tasks) : task_graph[completed_tasks[k]] = task_graph[i]
    \/ \E k \in 1..Len(failed_tasks) : task_graph[failed_tasks[k]] = task_graph[i]

\* every task before the one handed to the executor is terminal
C26_Inv ==
    pc \in {"edit", "validate", "decide"}
        => /\ current_task \in 1..Len(task_graph)
           /\ ~InEitherList(current_task)
           /\ \A j \in 1..(current_task - 1) : InEitherList(j)

\* C26: an iteration selects the first task of the task graph that is in
\* neither Completed nor Failed and hands it to the executor, so a task is
\* executed only when every task before it is terminal; when no task is
\* left the loop leaves for the report.
C26_SelectsFirstOpenTask ==
    /\ C26_Inv
    /\ [][/\ C26_Inv'
          /\ pc = "iterate" /\ iteration < max_iterations
                => IF \E i \in 1..Len(task_graph) : ~InEitherList(i)
                   THEN /\ pc' = "edit"
                        /\ ~InEitherList(current_task')
                        /\ \A j \in 1..(current_task' - 1) : InEitherList(j)
                   ELSE /\ pc' = "report"
                        /\ current_task' = 0
                        /\ exec_calls' = exec_calls]_vars

\* the second task of a graph is selected once the first one has failed
C26_Witness ==
    /\ pc = "edit"
    /\ current_task = 2
    /\ failed_tasks = <<1>>
    /\ task_graph[1].priority <= task_graph[2].priority


(***************************************************************************)
(* Which checks a validation pass runs, and what the scan examines.        *)
(***************************************************************************)
Once(b) == IF b THEN 1 ELSE 0

\* a check that did not run reports verdict true and no diagnostic
SkippedChecksPass ==
    /\ ValInput.ran.lint = 0
          => LastResults.lint_passed /\ LastResults.lint_output = NoOutput
    /\ ValInput.ran.test = 0
          => LastResults.tests_passed /\ LastResults.test_output = NoOutput
    /\ ValInput.ran.security = 0
          => LastResults.security_passed /\ LastResults.security_output = NoOutput

\* C27 as stated: every configured check runs exactly once whatever the
\* earlier checks found, lint being configured by auto-lint with tracked
\* files and the test check by a test command; a check that does not run
\* reports true with no diagnostic.
C27_ConfiguredChecksRun ==
    val_input # <<>> =>
        /\ ValInput.ran.lint = Once(config.auto_lint /\ ValInput.fnames # <<>>)
        /\ ValInput.ran.test = Once(config.test_cmd)
        /\ ValInput.ran.security = Once(config.enable_security_scan)
        /\ SkippedChecksPass

\* C27 amended: the test check runs exactly once if auto-test is enabled and
\* a test command is configured, and not otherwise; lint runs exactly once
\* if auto-lint is enabled and tracked files exist, the security scan once if
\* it is enabled; no outcome of an earlier check changes that, and a check
\* that does not run reports true with no diagnostic.
C27_EnabledChecksRun ==
    val_input # <<>> =>
        /\ ValInput.ran.lint = Once(config.auto_lint /\ ValInput.fnames # <<>>)
        /\ ValInput.ran.test = Once(config.auto_test /\ config.test_cmd)
        /\ ValInput.ran.security = Once(config.enable_security_scan)
        /\ SkippedChecksPass

\* lint raises, and the test check and the scan run all the same
C27_Witness ==
    /\ val_input # <<>>
    /\ ValInput.ran = [lint |-> 1, test |-> 1, security |-> 1]
    /\ ValInput.lint = "raise"
    /\ ValInput.test = "output"
    /\ ~LastResults.lint_passed /\ ~LastResults.tests_passed


\* the tracked source files (program text, whatever the language)
SourceFiles == {f \in Range(ValInput.fnames) : f.py \/ f.name = "app.js"}
\* the file/construct pairs of the files in a set
PairsOf(files) ==
    UNION {{<<f.name, c>> : c \in f.content \cap Range(Constructs)} : f \in files}
\* the Python files the scan opens and reads
ScannedFiles == {f \in Range(ValInput.fnames) : f.py /\ f.exists /\ f.readable}
Listed == LastResults.security_output.issues

\* C28 as stated: the scan examines every tracked source file, flagged files
\* before it or not: the verdict is false iff some tracked source file
\* contains a risky construct, and the payload lists every file/construct
\* pair.
C28_ScanCoversEveryFile ==
    val_input # <<>> /\ ValInput.ran.security = 1 =>
        /\ ~LastResults.security_passed <=> PairsOf(SourceFiles) # {}
        /\ Range(Listed) = PairsOf(SourceFiles)

\* C28 amended: the scan examines every tracked Python file that exists and
\* can be read, flagged files before it or not: the verdict is false iff
\* such a file contains a risky construct, and the payload lists every
\* file/construct pair of those files once, file by file in tracked order.
C28_ScanCoversEveryReadablePythonFile ==
    val_input # <<>> /\ ValInput.ran.security = 1 =>
        /\ ~LastResults.security_passed <=> PairsOf(ScannedFiles) # {}
        /\ Range(Listed) = PairsOf(ScannedFiles)
        /\ Len(Listed) = Cardinality(PairsOf(ScannedFiles))
        /\ \A k, l \in 1..Len(Listed) :
              k < l => \E i, j \in 1..Len(ValInput.fnames) :
                          /\ i <= j
                          /\ ValInput.fnames[i].name = Listed[k][1]
                          /\ ValInput.fnames[j].name = Listed[l][1]
        /\ (PairsOf(ScannedFiles) = {}) =>
               LastResults.security_output = Output("No security issues detected")

\* two flagged files in one pass: the second is listed after the first
C28_Witness ==
    /\ val_input # <<>>
    /\ ValInput.ran.security = 1
    /\ ValInput.fnames = <<RiskyFile, EvalShellFile>>
    /\ Len(Listed) = 3
    /\ ~LastResults.security_passed


(***************************************************************************)
(* Properties of one executor call with the search collaborator.           *)
(***************************************************************************)
ExecInput == exec_input[1]
\* editing_code_generation_phase has returned
Executed == exec_input # <<>> /\ ExecInput.op = "done"
SearchCalled == ExecInput.search.calls = 1
ExecKind == task_graph[1].type
SearchUsable == ExecInput.enable_web_search /\ ExecInput.searcher = "ready"
HadContext == ExecInput.context # NoContext

C30_SearchFailureHarmless ==
    Executed /\ SearchCalled /\ ExecInput.outcome \in {"raise", "no_results", "empty"}
        => /\ ExecInput.edit_calls = 1
           /\ ExecInput.message =
                 [instruction |-> ExecKind, note |-> HadContext, web_context |-> FALSE]
           /\ edit_success = ~edit_raised
           /\ ~edit_raised => /\ last_error_context = ExecInput.context
                              /\ failed_tasks = <<>>
                              /\ pc = "validate"
           /\ edit_raised => last_error_context = [kind |-> "edit", segments |-> <<>>]

\* the search raises for a feature task with a stored context, and the edit
\* goes through
C30_Witness ==
    /\ Executed
    /\ SearchCalled
    /\ ExecInput.outcome = "raise"
    /\ HadContext
    /\ edit_success
    /\ ~ExecInput.message.web_context


(***************************************************************************)
(* Properties of one resolver pass.                                        *)
(***************************************************************************)
\* every dependency of t names a task resolved so far
NamesResolved(t) ==
    \A k \in 1..Len(t.dependencies) :
        \E i \in 1..Len(resolved) : resolved[i].name = t.dependencies[k]
\* the remaining tasks that are ready, in the order they remain in
ReadyInOrder == SelectSeq(remaining, NamesResolved)
OfPriority(s, p) == SelectSeq(s, LAMBDA t : t.priority = p)

\* s can be had from t by dropping elements
RECURSIVE IsSubSeq(_, _)
IsSubSeq(s, t) ==
    IF s = <<>> THEN TRUE
    ELSE IF t = <<>> THEN FALSE
    ELSE IF Head(s) = Head(t) THEN IsSubSeq(Tail(s), Tail(t))
    ELSE IsSubSeq(s, Tail(t))

\* C31: the tasks still to resolve stay in input order, and a pass with
\* ready tasks appends them all in ascending priority, those of one priority
\* in the order they have in the input.
C31_PassSortsStably ==
    /\ IsSubSeq(remaining, tasks)
    /\ [][/\ IsSubSeq(remaining', tasks')
          /\ rpc = "loop" /\ ReadyInOrder # <<>>
                => /\ Len(resolved') = Len(resolved) + Len(ReadyInOrder)
                   /\ SubSeq(resolved', 1, Len(resolved)) = resolved
                   /\ LET app == SubSeq(resolved', Len(resolved) + 1, Len(resolved'))
                      IN /\ \A k, l \in 1..Len(app) :
                                k < l => app[k].priority <= app[l].priority
                         /\ \A p \in Priorities :
                                OfPriority(app, p) = OfPriority(ReadyInOrder, p)]_vars

\* one pass resolved a priority-2 task behind two priority-1 tasks that
\* followed it in the input, and left the two in their input order
C31_Witness ==
    /\ passes = 1
    /\ Len(tasks) = 3
    /\ tasks[1].priority = 2 /\ tasks[2].priority = 1 /\ tasks[3].priority = 1
    /\ tasks[2].name # tasks[3].name
    /\ resolved = <<tasks[2], tasks[3], tasks[1]>>


\* C32: a pass that finds no ready task appends exactly one task, the
\* first of the remaining tasks that has the least priority number, and
\* removes it from the remaining tasks; the loop then goes on as before.
C32_ForcesOneLeastPriorityTask ==
    [][rpc = "loop" /\ remaining # <<>> /\ ReadyInOrder = <<>>
          => \E k \in 1..Len(remaining) :
                /\ \A j \in 1..Len(remaining) :
                       remaining[k].priority <= remaining[j].priority
                /\ \A j \in 1..(k - 1) : remaining[j].priority > remaining[k].priority
                /\ resolved' = Append(resolved, remaining[k])
                /\ remaining' = SubSeq(remaining, 1, k - 1)
                                \o SubSeq(remaining, k + 1, Len(remaining))
                /\ forced_pass'
                /\ rpc' = "loop"]_vars

\* of three tasks that wait for one another, the first pass forced the
\* second of the input, the earlier of the two with priority 1
C32_Witness ==
    /\ passes = 1
    /\ forced_pass
    /\ Len(tasks) = 3
    /\ tasks[1].priority = 2 /\ tasks[2].priority = 1 /\ tasks[3].priority = 1
    /\ tasks[2] # tasks[3]
    /\ resolved = <<tasks[2]>>
    /\ remaining = <<tasks[1], tasks[3]>>


\* the task the last pass forced
ForcedTask == resolved[Len(resolved)]
OnCycle(ts, n) ==
    LET E == Edges(ts)
    IN n \in ReachFrom(E, Successors(E, {n}), Cardinality(E))
Dangling(ts, t) ==
    \E k \in 1..Len(t.dependencies) : t.dependencies[k] \notin ResolvedNames(ts)

\* C35: a task the resolver forces, in a list of distinctly named tasks,
\* lies on a dependency cycle itself or has a dependency that names no task
\* of the list; a task that only waits for such a task is not forced ahead
\* of what it depends on.  The code forces the first remaining task of
\* least priority number, whatever it is blocked by.
C35_ForcedTaskIsTheBlockedOne ==
    forced_pass /\ UniqueNames(tasks)
        => OnCycle(tasks, ForcedTask.name) \/ Dangling(tasks, ForcedTask)


(***************************************************************************)
(* What the loop leaves alone, and how it ends.                            *)
(***************************************************************************)
\* a task without its retry_count
Planned(t) == [name |-> t.name, type |-> t.type, priority |-> t.priority,
               dependencies |-> t.dependencies]

\* what a step of the loop does to the task graph
GraphStep ==
    /\ Len(task_graph') = Len(task_graph)
    /\ \A i \in 1..Len(task_graph) :
          /\ Planned(task_graph'[i]) = Planned(task_graph[i])
          /\ (task_graph'[i].retry_count # task_graph[i].retry_count)
                => (pc = "decide" /\ ~validation_success
                    /\ i = current_task /\ last_event' = "retry")

\* C33: while the loop runs, the task graph keeps its tasks and their
\* order, and every task its name, kind, priority and dependencies; a
\* retry_count changes only when the feedback controller handles a
\* validation failure, and then only that of the task just validated.
C33_TaskGraphFrozen ==
    [][(pc \in {"iterate", "edit", "validate", "decide", "report"}) => GraphStep]_vars

\* the second of two different tasks is retried after the first was completed
C33_Witness ==
    /\ last_event = "retry"
    /\ Len(task_graph) = 2
    /\ current_task = 2
    /\ Planned(task_graph[1]) # Planned(task_graph[2])
    /\ task_graph[2].retry_count = 1
    /\ task_graph[1].retry_count = 0
    /\ completed_tasks = <<1>>


(***************************************************************************)
(* Names of a planned list.                                                *)
(***************************************************************************)
\* C34: the tasks of the graph planning_phase hands to the loop have
\* pairwise distinct names.  The names of a delegated list are the
\* delegate's own (line 489) and are checked nowhere.
C34_PlannedNamesDistinct ==
    PlanningReturned
        => \A i, j \in 1..Len(task_graph) :
               task_graph[i].name = task_graph[j].name => i = j


(***************************************************************************)
(* How the loop ends.                                                      *)
(***************************************************************************)
LoopLeft == pc \in {"report", "done"} /\ task_graph # <<>>

\* C36: with a budget of at least three iterations per task, every task is
\* in Completed or Failed when the loop is left.  A task that fails
\* validation is retried whatever its count (C2), so one task can take
\* every iteration of the budget and still be in neither list.
C36_BudgetOfThreePerTaskSuffices ==
    LoopLeft /\ max_iterations >= 3 * Len(task_graph)
        => \A i \in 1..Len(task_graph) :
               i \in Range(completed_tasks) \cup Range(failed_tasks)


\* the task at position i was passed to the executor at least once
WasExecuted(i) ==
    \/ i \in Range(completed_tasks) \cup Range(failed_tasks)
    \/ val_failures[i] > 0

\* C37: when the loop is left because no task is found, before the budget
\* is used up, every task of the graph is in Completed or Failed and was
\* passed to the executor at least once.  Two equal task dicts (C34, C25)
\* are one task to `in`: when the first is terminal the second is found in
\* the list too and is never executed.
C37_EarlyExitOnlyWhenAllExecuted ==
    last_event = "no_task" /\ iteration < max_iterations
        => \A i \in 1..Len(task_graph) : InEitherList(i) /\ WasExecuted(i)


\* C38: the iteration count at loop exit, which the report shows as
\* "Iterations completed", is the number of iterations in which a task was
\* passed to the executor.  current_iteration is set when an iteration
\* starts (line 940), also in the iteration that finds no task and breaks.
C38_IterationsCountExecutorCalls ==
    LoopLeft
        => /\ current_iteration = exec_calls
           /\ report # <<>> => report[1].iterations = exec_calls


(***************************************************************************)
(* The error context of a validation failure.                              *)
(***************************************************************************)
\* C39: the error context stored after a validation failure has a
\* segment for a check only if that check failed in the pass.  A segment is
\* added for every truthy output (lines 1005-1012), and a passing scan's
\* output is the text "No security issues detected".
C39_ContextOnlyFromFailedChecks ==
    last_event = "retry" /\ validation_results # <<>>
        => \A k \in 1..Len(last_error_context.segments) :
              LET label == last_error_context.segments[k].label
              IN /\ label = "Lint errors" => ~validation_results[1].lint_passed
                 /\ label = "Test failures" => ~validation_results[1].tests_passed
                 /\ label = "Security issues" => ~validation_results[1].security_passed

=============================================================================
